---- MODULE Spec2Model ----
(***************************************************************************)
(* A model of scripts/hookd/hookd.py, the PEP 517 build hook daemon.       *)
(*                                                                         *)
(* A text (a Python str) is a sequence of tokens.  The characters the code *)
(* inspects (newline, ':', '.', '_', '/', the JSON punctuation, a quote, a *)
(* digit, a blank) are tokens of their own; every other token stands for a *)
(* run of characters the code never looks into.  A line of output is the   *)
(* sequence of the texts print() joins with blanks.                        *)
(***************************************************************************)
EXTENDS Integers, Sequences, FiniteSets, TLC

VARIABLES
    pc,                  \* the position of main / run_once
    io,                  \* the events of the current loop iteration, in order
    cache,               \* the functools.cache of _parse_build_backend
    debug,               \* DEBUG_ON
    readable,            \* stdin.readable()
    line_buffering,      \* sys.stdout.line_buffering: a terminal, or unbuffered
    unflushed,           \* text written to sys.stdout waits in its buffer
    eof,                 \* the parent has closed the input stream
    exc,                 \* the exception in flight, or NoExc
    exitCode,            \* the exit status of the process, -1 while it runs
    iter,                \* the iterations of the while loop started so far
    build_backend,       \* run_once's local: the resolved handle
    build_backend_name,  \* run_once's local: the backend name used
    hook_name,           \* run_once's local
    args,                \* run_once's local: the arguments decoded so far
    raised,              \* history: the exception the try block of this iteration raised
    hook_result,         \* history: what the hook called in this iteration did
    tracked,             \* history: the requests whose first run is recorded
    earlier,             \* history: the record of an earlier cycle of the session
    workdir,             \* the working directory of the process
    t_pc,                \* the position of tmpchdir
    t_path,              \* tmpchdir's parameter `path`
    t_cwd,               \* tmpchdir's local `cwd`
    t_exc,               \* the exception in flight in tmpchdir, or NoExc
    t_entry              \* history: the working directory when tmpchdir was entered

vars == <<pc, io, cache, debug, readable, line_buffering, unflushed, eof, exc,
          exitCode, iter, build_backend, build_backend_name, hook_name, args,
          raised, hook_result, tracked, earlier, workdir, t_pc, t_path, t_cwd, t_exc,
          t_entry>>

\* The iterations of the loop one session may start.
MaxIter == 2

-----------------------------------------------------------------------------
(* Texts *)

NL == "<LF>"
QUOTE == "<dq>"

T(tok) == <<tok>>

\* the line is used with its newline left on
rstrip_kept(s) == s

\* str.rstrip("\n")
RECURSIVE rstrip(_)
rstrip(s) ==
    IF Len(s) > 0 /\ s[Len(s)] = NL THEN rstrip(SubSeq(s, 1, Len(s) - 1)) ELSE s

\* str.split(sep)
RECURSIVE split(_, _)
split(s, sep) ==
    IF \E i \in 1..Len(s) : s[i] = sep
    THEN LET i == CHOOSE k \in 1..Len(s) :
                      s[k] = sep /\ \A j \in 1..(k - 1) : s[j] # sep
         IN  <<SubSeq(s, 1, i - 1)>> \o split(SubSeq(s, i + 1, Len(s)), sep)
    ELSE <<s>>

\* str.rsplit(sep, 1), for a text that holds sep
rsplit1(s, sep) ==
    LET i == CHOOSE k \in 1..Len(s) :
                 s[k] = sep /\ \A j \in (k + 1)..Len(s) : s[j] # sep
    IN  <<SubSeq(s, 1, i - 1), SubSeq(s, i + 1, Len(s))>>

\* str.replace("_", "-")
replace(s) == [i \in 1..Len(s) |-> IF s[i] = "_" THEN "-" ELSE s[i]]

\* repr() of a str without quotes or backslashes in it
repr(s) == <<"'">> \o s \o <<"'">>

\* ", ".join(texts)
RECURSIVE join(_)
join(ts) ==
    IF Len(ts) = 0 THEN <<>>
    ELSE IF Len(ts) = 1 THEN ts[1]
    ELSE ts[1] \o <<", ">> \o join(Tail(ts))

-----------------------------------------------------------------------------
(* Values: a decoded argument or a hook's result, tagged by its Python type *)

V(t, s, items) == [t |-> t, s |-> s, items |-> items]
None == V("none", <<>>, <<>>)
PathV(s) == V("path", s, <<>>)
StrV(s) == V("str", s, <<>>)
NumV(s) == V("num", s, <<>>)
BoolV(s) == V("bool", s, <<>>)
ListV(items) == V("list", <<>>, items)
\* a dict is the sequence of its <<key, value>> items, in insertion order
DictV(items) == V("dict", <<>>, items)

\* Results of a function that may raise
NoExc == [cls |-> "", args |-> <<>>, inner |-> <<>>]
Exc(cls, a) == [cls |-> cls, args |-> a, inner |-> <<>>]
Ret(v) == [ok |-> TRUE, val |-> v, exc |-> NoExc]
Raise(e) == [ok |-> FALSE, val |-> None, exc |-> e]

-----------------------------------------------------------------------------
(* The enumerations and the registry *)

\* Hook._member_names_, in definition order
HookNames ==
    <<"build_wheel", "build_sdist", "prepare_metadata_for_build_wheel",
      "get_requires_for_build_wheel", "get_requires_for_build_sdist">>

\* Action._member_names_
ActionNames == <<"run", "shutdown">>

\* HookArgument: a member is its name
wheel_directory == <<"wheel", "_", "directory">>
config_settings == <<"config", "_", "settings">>
metadata_directory == <<"metadata", "_", "directory">>
sdist_directory == <<"sdist", "_", "directory">>

\* the registry with two arguments of build_wheel exchanged
HookArguments_reordered ==
    [h \in {HookNames[i] : i \in 1..Len(HookNames)} |->
        CASE h = "build_sdist" -> <<sdist_directory, config_settings>>
          [] h = "build_wheel" ->
                 <<wheel_directory, metadata_directory, config_settings>>
          [] h = "prepare_metadata_for_build_wheel" ->
                 <<metadata_directory, config_settings>>
          [] h = "get_requires_for_build_sdist" -> <<config_settings>>
          [] h = "get_requires_for_build_wheel" -> <<config_settings>>]

HookArguments ==
    [h \in {HookNames[i] : i \in 1..Len(HookNames)} |->
        CASE h = "build_sdist" -> <<sdist_directory, config_settings>>
          [] h = "build_wheel" ->
                 <<wheel_directory, config_settings, metadata_directory>>
          [] h = "prepare_metadata_for_build_wheel" ->
                 <<metadata_directory, config_settings>>
          [] h = "get_requires_for_build_sdist" -> <<config_settings>>
          [] h = "get_requires_for_build_wheel" -> <<config_settings>>]

-----------------------------------------------------------------------------
(* The exceptions *)

HookdErrorClasses ==
    {"MissingBackendModule", "MissingBackendAttribute", "MalformedBackendName",
     "InvalidHookName", "InvalidAction", "UnsupportedHook",
     "MalformedHookArgument", "HookRuntimeError"}

\* isinstance(e, HookdError)
IsHookdError(e) == e.cls \in HookdErrorClasses

\* isinstance(e, (SystemExit, KeyboardInterrupt))
IsTerminationSignal(e) == e.cls \in {"SystemExit", "KeyboardInterrupt"}

\* isinstance(e, ImportError)
IsImportError(e) == e.cls \in {"ImportError", "ModuleNotFoundError"}

MissingBackendModule(name) == Exc("MissingBackendModule", <<name>>)
MissingBackendAttribute(module, attr) ==
    Exc("MissingBackendAttribute", <<module, attr>>)
MalformedBackendName(name) == Exc("MalformedBackendName", <<name>>)
InvalidHookName(name) == Exc("InvalidHookName", <<name>>)
InvalidAction(name) == Exc("InvalidAction", <<name>>)
UnsupportedHook(backend, hook) == Exc("UnsupportedHook", <<T(backend), T(hook)>>)
MalformedHookArgument(raw, argument) ==
    Exc("MalformedHookArgument", <<raw, argument>>)
HookRuntimeError(e) ==
    [cls |-> "HookRuntimeError", args |-> <<>>, inner |-> <<e>>]

\* UnreadableInput() at line 438: __init__ is called without its `reason`
UnreadableInputCall ==
    Raise(Exc("TypeError",
              <<T("UnreadableInput.__init__() missing 1 required positional argument: 'reason'")>>))

MemberNames(names) == join([i \in 1..Len(names) |-> repr(T(names[i]))])

\* str(e): HookdError.__str__ is message(); BaseException.__str__ is the
\* only argument, or '' without arguments
RECURSIVE str(_)
str(e) ==
    CASE e.cls = "MissingBackendModule" ->
             Ret(T("Failed to import the backend ") \o repr(e.args[1]))
      [] e.cls = "MissingBackendAttribute" ->
             Ret(T("Failed to find attribute ") \o repr(e.args[2])
                 \o T(" in the backend module ") \o repr(e.args[1]))
      [] e.cls = "MalformedBackendName" ->
             Ret(T("Backend ") \o repr(e.args[1]) \o T(" is malformed"))
      [] e.cls = "InvalidHookName" ->
             Ret(T("The name ") \o repr(e.args[1])
                 \o T(" is not valid hook. Expected one of: ")
                 \o MemberNames(HookNames))
      [] e.cls = "InvalidAction" ->
             Ret(T("Received invalid action ") \o repr(e.args[1])
                 \o T(". Expected one of: ") \o MemberNames(ActionNames))
      [] e.cls = "UnsupportedHook" ->
             \* message() reads self.name, which __init__ never sets
             Raise(Exc("AttributeError",
                       <<T("'UnsupportedHook' object has no attribute 'name'")>>))
      [] e.cls = "MalformedHookArgument" ->
             Ret(T("Malformed content for argument ") \o repr(e.args[2])
                 \o T(": ") \o repr(e.args[1]))
      [] e.cls = "HookRuntimeError" -> str(e.inner[1])
      [] OTHER -> Ret(IF Len(e.args) = 0 THEN <<>> ELSE e.args[1])

\* Hook.from_str
Hook_from_str(name) ==
    IF \E i \in 1..Len(HookNames) : name = T(HookNames[i])
    THEN Ret(name[1])
    ELSE Raise(InvalidHookName(name))

\* Action.from_str
Action_from_str(action) ==
    IF \E i \in 1..Len(ActionNames) : action = T(ActionNames[i])
    THEN Ret(action[1])
    ELSE Raise(InvalidAction(action))

-----------------------------------------------------------------------------
(* The decoders of the hook arguments *)

NotCurDir(part) == part # <<>> /\ part # <<".">>

RECURSIVE joinparts(_)
joinparts(parts) ==
    IF Len(parts) = 0 THEN <<>>
    ELSE IF Len(parts) = 1 THEN parts[1]
    ELSE parts[1] \o <<"/">> \o joinparts(Tail(parts))

\* pathlib.Path(s), as str() shows it: empty and '.' parts are dropped, and
\* a path left without parts is '.'
Path(s) ==
    LET body == joinparts(SelectSeq(split(s, "/"), NotCurDir))
    IN  IF Len(s) > 0 /\ s[1] = "/" THEN PathV(<<"/">> \o body)
        ELSE IF body = <<>> THEN PathV(<<".">>)
        ELSE PathV(body)

Digits == {"0", "1", "2", "3", "4", "5", "6", "7", "8", "9"}

JFail == [ok |-> FALSE, v |-> None, nxt |-> 0]
JOk(v, n) == [ok |-> TRUE, v |-> v, nxt |-> n]

\* json.decoder.WHITESPACE.match(s, i).end()
RECURSIVE skipws(_, _)
skipws(s, i) == IF i <= Len(s) /\ s[i] = " " THEN skipws(s, i + 1) ELSE i

\* json.decoder.scanstring, from the token after the opening quote
scanstring(s, i) ==
    IF \E j \in i..Len(s) : s[j] = QUOTE
    THEN LET j == CHOOSE k \in i..Len(s) :
                      s[k] = QUOTE /\ \A m \in i..(k - 1) : s[m] # QUOTE
         IN  JOk(StrV(SubSeq(s, i, j - 1)), j + 1)
    ELSE JFail

RECURSIVE digitsend(_, _)
digitsend(s, i) ==
    IF i <= Len(s) /\ s[i] \in Digits THEN digitsend(s, i + 1) ELSE i

\* dict(pairs): a repeated key keeps its place and takes the later value
put(items, key, v) ==
    IF \E i \in 1..Len(items) : items[i].k = key
    THEN [i \in 1..Len(items) |->
             IF items[i].k = key THEN [k |-> key, v |-> v] ELSE items[i]]
    ELSE Append(items, [k |-> key, v |-> v])

RECURSIVE JSONValue(_, _), JSONObject(_, _), JSONMembers(_, _, _),
          JSONArray(_, _), JSONElements(_, _, _)

\* json.scanner.py_make_scanner._scan_once
JSONValue(s, i) ==
    IF i > Len(s) THEN JFail
    ELSE IF s[i] = QUOTE THEN scanstring(s, i + 1)
    ELSE IF s[i] = "{" THEN JSONObject(s, i + 1)
    ELSE IF s[i] = "[" THEN JSONArray(s, i + 1)
    ELSE IF s[i] = "null" THEN JOk(None, i + 1)
    ELSE IF s[i] \in {"true", "false"} THEN JOk(BoolV(T(s[i])), i + 1)
    ELSE IF s[i] \in Digits
         THEN JOk(NumV(SubSeq(s, i, digitsend(s, i) - 1)), digitsend(s, i))
    ELSE JFail

\* json.decoder.JSONObject, from the token after '{'
JSONObject(s, i) ==
    LET j == skipws(s, i)
    IN  IF j <= Len(s) /\ s[j] = "}" THEN JOk(DictV(<<>>), j + 1)
        ELSE JSONMembers(s, j, <<>>)

JSONMembers(s, i, items) ==
    IF i > Len(s) \/ s[i] # QUOTE THEN JFail
    ELSE LET key == scanstring(s, i + 1)
         IN  IF ~key.ok THEN JFail
             ELSE LET c == skipws(s, key.nxt)
                  IN  IF c > Len(s) \/ s[c] # ":" THEN JFail
                      ELSE LET val == JSONValue(s, skipws(s, c + 1))
                           IN  IF ~val.ok THEN JFail
                               ELSE LET e == skipws(s, val.nxt)
                                        items2 == put(items, key.v.s, val.v)
                                    IN  IF e > Len(s) THEN JFail
                                        ELSE IF s[e] = "}"
                                             THEN JOk(DictV(items2), e + 1)
                                        ELSE IF s[e] = ","
                                             THEN JSONMembers(s, skipws(s, e + 1), items2)
                                        ELSE JFail

\* json.decoder.JSONArray, from the token after '['
JSONArray(s, i) ==
    LET j == skipws(s, i)
    IN  IF j <= Len(s) /\ s[j] = "]" THEN JOk(ListV(<<>>), j + 1)
        ELSE JSONElements(s, j, <<>>)

JSONElements(s, i, items) ==
    LET val == JSONValue(s, i)
    IN  IF ~val.ok THEN JFail
        ELSE LET e == skipws(s, val.nxt)
                 items2 == Append(items, val.v)
             IN  IF e > Len(s) THEN JFail
                 ELSE IF s[e] = "]" THEN JOk(ListV(items2), e + 1)
                 ELSE IF s[e] = "," THEN JSONElements(s, skipws(s, e + 1), items2)
                 ELSE JFail

JSONDecodeError == Exc("JSONDecodeError", <<>>)

\* json.loads: one value, with nothing but blanks around it
json_loads(s) ==
    LET r == JSONValue(s, skipws(s, 1))
    IN  IF r.ok /\ skipws(s, r.nxt) = Len(s) + 1 THEN Ret(r.v)
        ELSE Raise(JSONDecodeError)

\* parse_path, parse_optional_path and parse_config_settings, applied to the
\* line readline() returned
parse_path(line) == Ret(Path(rstrip(line)))

parse_optional_path(line) ==
    LET data == rstrip(line)
    IN  IF data = <<>> THEN Ret(None) ELSE Ret(Path(data))

parse_config_settings(line) ==
    LET data == rstrip(line)
        r == json_loads(data)
    IN  IF data = <<>> THEN Ret(None)
        ELSE IF r.ok THEN r
        ELSE IF r.exc.cls = "JSONDecodeError"
             THEN Raise(MalformedHookArgument(data, config_settings))
        ELSE r

parse_hook_argument(hook_arg, line) ==
    IF hook_arg = wheel_directory THEN parse_path(line)
    ELSE IF hook_arg = metadata_directory THEN parse_optional_path(line)
    ELSE IF hook_arg = sdist_directory THEN parse_path(line)
    ELSE IF hook_arg = config_settings THEN parse_config_settings(line)
    ELSE Raise(Exc("FatalError", <<T("No parser for hook argument kind ") \o repr(hook_arg)>>))

-----------------------------------------------------------------------------
(* The modules and objects the backend names of this model can reach *)

NoObj == ""

ImportableModules ==
    {<<"a">>, <<"setuptools">>, <<"setuptools", ".", "build_meta">>}

ModuleObject(name) ==
    CASE name = <<"a">> -> "a"
      [] name = <<"setuptools">> -> "setuptools"
      [] name = <<"setuptools", ".", "build_meta">> -> "setuptools.build_meta"

\* the attributes of an object that are not hooks
Attributes(obj) ==
    CASE obj = "a" -> {[name |-> <<"b">>, value |-> "a.b"]}
      [] obj = "setuptools" ->
             {[name |-> <<"build_meta">>, value |-> "setuptools.build_meta"]}
      [] obj = "setuptools.build_meta" ->
             {[name |-> <<"__legacy__">>, value |-> "__legacy__"]}
      [] OTHER -> {}

\* the hooks an object has as attributes
HooksOf(obj) ==
    CASE obj = "a" -> {"get_requires_for_build_wheel", "build_sdist"}
      [] obj = "a.b" -> {"build_wheel"}
      [] obj = "__legacy__" -> {HookNames[i] : i \in 1..Len(HookNames)}
      [] OTHER -> {}

\* importlib.import_module(name)
import_module(name) ==
    IF name = <<>> THEN Raise(Exc("ValueError", <<T("Empty module name")>>))
    ELSE IF name[1] = "."
         THEN Raise(Exc("TypeError",
                        <<T("the 'package' argument is required to perform a relative import")>>))
    ELSE IF name \in ImportableModules THEN Ret(ModuleObject(name))
    ELSE Raise(Exc("ModuleNotFoundError", <<T("No module named ") \o repr(name)>>))

\* getattr(obj, name), for the name of an attribute that is not a hook
getattr(obj, name) ==
    IF \E a \in Attributes(obj) : a.name = name
    THEN Ret((CHOOSE a \in Attributes(obj) : a.name = name).value)
    ELSE Raise(Exc("AttributeError", <<name>>))

-----------------------------------------------------------------------------
(* The backend resolver *)

DefaultBackend == <<"setuptools", ".", "build_meta", ":", "__legacy__">>

Resolved(res, imports) == [res |-> res, imports |-> imports]

\* the attribute named after the colon is not looked up
backend_of_module(module, backend, parts, raw) ==
    IF backend = NoObj THEN Ret(module) ELSE Ret(backend)

\* lines 225-234: the attribute named after the colon, or the module
backend_of(module, backend, parts, raw) ==
    IF Len(parts) = 2
    THEN LET a == getattr(module, parts[2])
         IN  IF a.ok THEN a ELSE Raise(MissingBackendAttribute(parts[1], raw))
    ELSE IF backend = NoObj THEN Ret(module)
    ELSE Ret(backend)

\* the body of _parse_build_backend, with the modules it tried to import
_parse_build_backend(raw) ==
    LET parts == split(raw, ":")
    IN  IF Len(parts) > 2 \/ (Len(parts) = 2 /\ parts[2] = <<>>)
        THEN Resolved(Raise(MalformedBackendName(raw)), <<>>)
        ELSE
        LET module_name == parts[1]
            first == import_module(module_name)
        IN  IF first.ok
            THEN Resolved(backend_of(first.val, NoObj, parts, raw), <<module_name>>)
            ELSE IF ~IsImportError(first.exc)
            THEN Resolved(first, <<module_name>>)
            ELSE IF \A i \in 1..Len(module_name) : module_name[i] # "."
            THEN Resolved(Raise(MissingBackendModule(module_name)), <<module_name>>)
            ELSE
            LET names == rsplit1(module_name, ".")
                second == import_module(names[1])
                child == getattr(second.val, names[2])
                imports == <<module_name, names[1]>>
            IN  IF ~second.ok
                THEN Resolved(IF IsImportError(second.exc)
                              THEN Raise(MissingBackendModule(module_name))
                              ELSE second, imports)
                ELSE IF ~child.ok
                THEN Resolved(Raise(MissingBackendAttribute(module_name, names[2])),
                              imports)
                ELSE Resolved(backend_of(second.val, child.val, parts, raw), imports)

\* functools.cache: a stored result is returned without running the body,
\* and only a returned result is stored
\* _parse_build_backend without its @cache: nothing is ever found stored
Cached_never(raw) == FALSE

Cached(raw) == \E c \in cache : c.key = raw
CacheGet(raw) == (CHOOSE c \in cache : c.key = raw).handle
CachePut(raw, handle) == cache \cup {[key |-> raw, handle |-> handle]}

-----------------------------------------------------------------------------
(* The events of a session and the lines written *)

Out(fields) == [ev |-> "out", line |-> fields]
In(line) == [ev |-> "in", line |-> <<line>>]
Import(name) == [ev |-> "import", line |-> <<name>>]
Call(hook) == [ev |-> "call", line |-> <<T(hook)>>]

RECURSIVE pyrepr(_)
pyrepr(v) ==
    CASE v.t = "none" -> T("None")
      [] v.t = "path" -> T("PosixPath(") \o repr(v.s) \o T(")")
      [] v.t = "str" -> repr(v.s)
      [] v.t = "num" -> v.s
      [] v.t = "bool" -> IF v.s = T("true") THEN T("True") ELSE T("False")
      [] v.t = "list" ->
             T("[") \o join([i \in 1..Len(v.items) |-> pyrepr(v.items[i])]) \o T("]")
      [] v.t = "dict" ->
             T("{")
             \o join([i \in 1..Len(v.items) |->
                         repr(v.items[i].k) \o T(": ") \o pyrepr(v.items[i].v)])
             \o T("}")

\* str(v)
pystr(v) == IF v.t \in {"str", "path"} THEN v.s ELSE pyrepr(v)

send_expect(name) == Out(<<T("EXPECT"), replace(name)>>)
send_ready == Out(<<T("READY")>>)
send_shutdown == Out(<<T("SHUTDOWN")>>)
send_error(e) == Out(<<T("ERROR"), T(e.cls), str(e).val>>)
send_ok(result) == Out(<<T("OK"), pystr(result)>>)
send_debug(fields) == Out(<<T("DEBUG")>> \o fields)

\* send_fatal: the FATAL line and, with DEBUG_ON, the lines of the traceback
send_fatal(e) ==
    <<Out(<<T("FATAL"), T(e.cls), str(e).val>>)>>
    \o (IF debug
        THEN <<Out(<<T("Traceback (most recent call last):")>>),
               Out(<<T(e.cls) \o T(":"), str(e).val>>)>>
        ELSE <<>>)

\* the exit status of the interpreter when e leaves main
ExitStatus(e) ==
    IF e.cls = "SystemExit"
    THEN IF Len(e.args) = 0 THEN 0
         ELSE IF Len(e.args[1]) = 1 /\ e.args[1][1] \in Digits
              THEN CHOOSE n \in 0..9 : ToString(n) = e.args[1][1]
         ELSE 1
    ELSE IF e.cls = "KeyboardInterrupt" THEN 130
    ELSE 1

-----------------------------------------------------------------------------
(* What the parent may send, and what a hook may do *)

ActionTexts == {<<"run">>, <<"shutdown">>, <<"bogus">>, <<>>}

BackendTexts ==
    {<<>>, <<"a">>, <<"a", ".", "b">>, <<"a", ":", "b">>,
     <<":", "b">>, <<"a", ":">>, <<"a", ":", "b", ":", "b">>,
     <<"z">>, <<"z", ".", "b">>, <<"a", ".", "z">>, <<"a", ":", "z">>}

HookTexts == {T(HookNames[i]) : i \in 1..Len(HookNames)} \cup {<<"bogus">>}

PathTexts == {<<>>, <<"d">>, <<"d", "/">>}

ConfigTexts ==
    {<<>>,
     <<"{", "}">>,
     <<"{", "bad">>,
     <<"5">>,
     <<QUOTE, "s", QUOTE>>,
     <<"[", "]">>,
     <<"null">>,
     <<"{", QUOTE, "k", QUOTE, ":", " ", QUOTE, "v", QUOTE, "}">>,
     <<"{", QUOTE, "k", QUOTE, ":", " ", "{", QUOTE, "k", QUOTE, ":", " ",
       QUOTE, "v", QUOTE, "}", "}">>,
     <<"{", QUOTE, "k", QUOTE, ":", " ", "5", "}">>}

ArgumentTexts(hook_arg) ==
    IF hook_arg = config_settings THEN ConfigTexts ELSE PathTexts

\* what calling a hook may do: return a value, or raise
HookOutcomes ==
    {Ret(StrV(<<"w.whl">>)),
     Ret(ListV(<<StrV(<<"x">>)>>)),
     Raise(Exc("SystemExit", <<T("0")>>)),
     Raise(Exc("SystemExit", <<T("2")>>)),
     Raise(Exc("KeyboardInterrupt", <<>>)),
     Raise(Exc("ValueError", <<T("boom")>>)),
     Raise(MalformedBackendName(<<"x">>))}

\* buffer.readline(): a line with its newline, or what is left of the stream
\* when it ends: a last line without a newline, or ''
readline(texts) ==
    IF eof THEN {<<>>} ELSE {t \o <<NL>> : t \in texts} \cup texts \cup {<<>>}

\* the stream has ended once readline() returns a line without a newline
AtEnd(line) == Len(line) = 0 \/ line[Len(line)] # NL

\* the exception classes of a backend that could not be resolved
BackendErrorClasses ==
    {"MalformedBackendName", "MissingBackendModule", "MissingBackendAttribute"}

\* the requests whose repetition later in the session is compared with
\* their first run: three that succeed and three whose backend cannot be
\* resolved
TrackedRequests ==
    {<<<<"run">>, <<"a", ".", "b">>, <<"build_wheel">>, <<"d">>,
       <<"{", QUOTE, "k", QUOTE, ":", " ", QUOTE, "v", QUOTE, "}">>, <<>>>>,
     <<<<"run">>, <<>>, <<"prepare_metadata_for_build_wheel">>, <<>>, <<"{", "}">>>>,
     <<<<"run">>, <<"a">>, <<"get_requires_for_build_wheel">>,
       <<"{", QUOTE, "k", QUOTE, ":", " ", "{", QUOTE, "k", QUOTE, ":", " ",
         QUOTE, "v", QUOTE, "}", "}">>>>,
     <<<<"run">>, <<"a", ":", "b", ":", "b">>>>,
     <<<<"run">>, <<"z", ".", "b">>>>,
     <<<<"run">>, <<"a", ":", "z">>>>}

\* no path was given to tmpchdir yet
NoPath == [absolute |-> FALSE, parts |-> <<"?">>]

\* the directories that exist, each the sequence of its names from the root
Dirs == {<<>>, <<"src">>, <<"src", "pkg">>, <<"tmp">>}

\* the paths tmpchdir may be given: absolute or relative, existing or not
PathArgs ==
    {[absolute |-> TRUE, parts |-> <<"src">>],
     [absolute |-> TRUE, parts |-> <<"nowhere">>],
     [absolute |-> TRUE, parts |-> <<"src", "pkg", "..", "..", "tmp">>],
     [absolute |-> FALSE, parts |-> <<"pkg">>],
     [absolute |-> FALSE, parts |-> <<"..">>],
     [absolute |-> FALSE, parts |-> <<>>]}

\* what the body of a with-block may raise
BodyExceptions == {Exc("ValueError", <<T("boom")>>), Exc("KeyboardInterrupt", <<>>)}

-----------------------------------------------------------------------------------------------------------------------------------------------------
(* main and run_once *)

locals == <<build_backend, build_backend_name, hook_name, args>>

\* DEBUG_ON, stdin.readable() and the buffering of sys.stdout do not change
settings == <<debug, readable, line_buffering, tracked>>

\* what tmpchdir works on; main and run_once never call it
tmpchdir_vars == <<workdir, t_pc, t_path, t_cwd, t_exc, t_entry>>

ClearLocals ==
    /\ build_backend' = NoObj
    /\ build_backend_name' = <<>>
    /\ hook_name' = ""
    /\ args' = <<>>

NoCall == [ok |-> FALSE, val |-> None, exc |-> NoExc]

\* raise e, inside the try block of main
Throw(e) ==
    /\ exc' = e
    /\ raised' = e
    /\ pc' = "except"

Goto(label) ==
    /\ pc' = label
    /\ UNCHANGED <<exc, raised>>

\* print(..., file=fd) without flush: the text stays in the buffer of
\* sys.stdout unless the stream is line buffered
Written == unflushed' = ~line_buffering

\* the interpreter flushes sys.stdout when the process ends
Exited == unflushed' = FALSE

\* the lines a cycle has read, without their newlines
LinesRead(log) ==
    LET reads == SelectSeq(log, LAMBDA e : e.ev = "in")
    IN  [i \in 1..Len(reads) |-> rstrip(reads[i].line[1])]

NoCycle ==
    [iter |-> 0, io |-> <<>>, args |-> <<>>, result |-> NoCall, raised |-> NoExc]

\* history: the record of a cycle
Cycle(log, values, result, e) ==
    [iter |-> iter, io |-> log, args |-> values, result |-> result, raised |-> e]

\* the state main starts in, with sys.stdout buffered in one of the given
\* ways and the given requests recorded
Start(buffering, requests) ==
    /\ pc = "top"
    /\ io = <<>>
    /\ cache = {}
    /\ debug \in BOOLEAN
    /\ readable \in BOOLEAN
    /\ line_buffering \in buffering
    /\ unflushed = FALSE
    /\ eof = FALSE
    /\ exc = NoExc
    /\ exitCode = -1
    /\ iter = 0
    /\ build_backend = NoObj
    /\ build_backend_name = <<>>
    /\ hook_name = ""
    /\ args = <<>>
    /\ raised = NoExc
    /\ hook_result = NoCall
    /\ tracked = requests
    /\ earlier = NoCycle

\* tmpchdir has not been called
NotInTmpchdir ==
    /\ t_pc = "idle"
    /\ t_cwd = <<>>
    /\ t_exc = NoExc
    /\ t_entry = <<>>

\* sys.stdout is a pipe to the parent
Init == Start({FALSE}, {}) /\ NotInTmpchdir /\ workdir = <<>> /\ t_path = NoPath

\* lines 433-442: the top of the loop, up to EXPECT action.  The count of
\* the iterations stops at MaxIter; past it the loop goes on only with the
\* input stream at its end, where every iteration is the same.
MainLoop ==
    /\ pc = "top"
    /\ iter < MaxIter \/ eof
    /\ iter' = IF iter < MaxIter THEN iter + 1 ELSE iter
    /\ hook_result' = NoCall
    /\ IF ~readable
       THEN /\ io' = <<>>
            /\ Throw(UnreadableInputCall.exc)
            /\ unflushed' = unflushed
       ELSE /\ io' = <<send_ready, send_expect(<<"action">>)>>
            /\ exc' = exc
            /\ raised' = NoExc
            /\ pc' = "parse_action"
            /\ Written
    /\ UNCHANGED <<cache, settings, eof, exitCode, locals, earlier, tmpchdir_vars>>

\* lines 443-446: parse_action, and the shutdown action
ParseAction ==
    /\ pc = "parse_action"
    /\ \E line \in readline(ActionTexts) :
          LET action == Action_from_str(rstrip(line))
          IN  /\ eof' = (eof \/ AtEnd(line))
              /\ IF ~action.ok
                 THEN /\ io' = Append(io, In(line))
                      /\ Throw(action.exc)
                      /\ exitCode' = exitCode
                      /\ unflushed' = unflushed
                 ELSE IF action.val = "shutdown"
                 THEN /\ io' = io \o <<In(line), send_shutdown>>
                      /\ Goto("done")
                      /\ exitCode' = 0
                      /\ Exited
                 ELSE /\ io' = Append(io, In(line))
                      /\ Goto("run_once")
                      /\ exitCode' = exitCode
                      /\ unflushed' = unflushed
    /\ UNCHANGED <<cache, settings, iter, locals, hook_result, earlier, tmpchdir_vars>>

\* line 380
ExpectBuildBackend ==
    /\ pc = "run_once"
    /\ io' = Append(io, send_expect(<<"build", "-", "backend">>))
    /\ Written
    /\ Goto("parse_build_backend")
    /\ UNCHANGED <<cache, settings, eof, exitCode, iter, locals, hook_result,
                   earlier, tmpchdir_vars>>

\* functools.cache storing what raised as well
Memoize_failures(raw, res) == CachePut(raw, IF res.ok THEN res.val ELSE NoObj)

\* functools.cache after a call that was not served from it: a returned
\* result is stored, an exception passes through and nothing is stored
Memoize(raw, res) == IF res.ok THEN CachePut(raw, res.val) ELSE cache

\* line 381: parse_build_backend
ParseBuildBackend ==
    /\ pc = "parse_build_backend"
    /\ \E line \in readline(BackendTexts) :
          LET stripped == rstrip(line)
              raw == IF stripped = <<>> THEN DefaultBackend ELSE stripped
              r == _parse_build_backend(raw)
              imported == [i \in 1..Len(r.imports) |-> Import(r.imports[i])]
          IN  /\ eof' = (eof \/ AtEnd(line))
              /\ IF Cached(raw)
                 THEN /\ io' = Append(io, In(line))
                      /\ build_backend' = CacheGet(raw)
                      /\ build_backend_name' = raw
                      /\ Goto("expect_hook_name")
                      /\ cache' = cache
                 ELSE /\ io' = io \o <<In(line)>> \o imported
                      /\ cache' = Memoize(raw, r.res)
                      /\ IF r.res.ok
                         THEN /\ build_backend' = r.res.val
                              /\ build_backend_name' = raw
                              /\ Goto("expect_hook_name")
                         ELSE /\ Throw(r.res.exc)
                              /\ UNCHANGED <<build_backend, build_backend_name>>
    /\ UNCHANGED <<settings, unflushed, exitCode, iter, hook_name, args,
                   hook_result, earlier, tmpchdir_vars>>

\* run_once without its send_expect for the hook name
ExpectHookName_silent ==
    /\ pc = "expect_hook_name"
    /\ Goto("parse_hook_name")
    /\ UNCHANGED <<io, cache, settings, unflushed, eof, exitCode, iter, locals,
                   hook_result, earlier, tmpchdir_vars>>

\* line 383
ExpectHookName ==
    /\ pc = "expect_hook_name"
    /\ io' = Append(io, send_expect(<<"hook", "-", "name">>))
    /\ Written
    /\ Goto("parse_hook_name")
    /\ UNCHANGED <<cache, settings, eof, exitCode, iter, locals, hook_result,
                   earlier, tmpchdir_vars>>

\* parse_hook_name followed at once by the lookup of the hook on the backend
ParseHookName_lookup_first ==
    /\ pc = "parse_hook_name"
    /\ \E line \in readline(HookTexts) :
          LET hook == Hook_from_str(rstrip(line))
          IN  /\ eof' = (eof \/ AtEnd(line))
              /\ io' = Append(io, In(line))
              /\ IF ~hook.ok
                 THEN /\ Throw(hook.exc)
                      /\ hook_name' = hook_name
                 ELSE IF hook.val \notin HooksOf(build_backend)
                 THEN /\ Throw(UnsupportedHook(build_backend, hook.val))
                      /\ hook_name' = hook.val
                 ELSE /\ Goto("arguments")
                      /\ hook_name' = hook.val
    /\ UNCHANGED <<cache, settings, unflushed, exitCode, iter,
                   build_backend, build_backend_name, args, hook_result,
                   earlier, tmpchdir_vars>>

\* lines 384-392: parse_hook_name and the lookup of the hook's schema
ParseHookName ==
    /\ pc = "parse_hook_name"
    /\ \E line \in readline(HookTexts) :
          LET hook == Hook_from_str(rstrip(line))
          IN  /\ eof' = (eof \/ AtEnd(line))
              /\ io' = Append(io, In(line))
              /\ IF ~hook.ok
                 THEN /\ Throw(hook.exc)
                      /\ hook_name' = hook_name
                 ELSE IF hook.val \notin DOMAIN HookArguments
                 THEN /\ Throw(Exc("FatalError",
                                   <<T("No arguments defined for hook ")
                                     \o repr(T(hook.val))>>))
                      /\ hook_name' = hook.val
                 ELSE /\ Goto("arguments")
                      /\ hook_name' = hook.val
    /\ UNCHANGED <<cache, settings, unflushed, exitCode, iter,
                   build_backend, build_backend_name, args, hook_result,
                   earlier, tmpchdir_vars>>

\* line 388: the EXPECT of the next argument of the schema
ExpectArgument ==
    /\ pc = "arguments"
    /\ Len(args) < Len(HookArguments[hook_name])
    /\ io' = Append(io, send_expect(HookArguments[hook_name][Len(args) + 1]))
    /\ Written
    /\ Goto("parse_hook_argument")
    /\ UNCHANGED <<cache, settings, eof, exitCode, iter, locals, hook_result,
                   earlier, tmpchdir_vars>>

\* line 389: parse_hook_argument
ParseHookArgument ==
    /\ pc = "parse_hook_argument"
    /\ LET hook_arg == HookArguments[hook_name][Len(args) + 1]
       IN  \E line \in readline(ArgumentTexts(hook_arg)) :
              LET value == parse_hook_argument(hook_arg, line)
              IN  /\ eof' = (eof \/ AtEnd(line))
                  /\ io' = Append(io, In(line))
                  /\ IF value.ok
                     THEN /\ args' = Append(args, value.val)
                          /\ Goto("arguments")
                     ELSE /\ args' = args
                          /\ Throw(value.exc)
    /\ UNCHANGED <<cache, settings, unflushed, exitCode, iter,
                   build_backend, build_backend_name, hook_name, hook_result,
                   earlier, tmpchdir_vars>>

\* lines 396-409: the DEBUG line of the request and the lookup of the hook
LookupHook ==
    /\ pc = "arguments"
    /\ Len(args) = Len(HookArguments[hook_name])
    /\ LET request ==
               send_debug(<<build_backend_name, T(hook_name)>>
                          \o [i \in 1..Len(args) |->
                                 HookArguments[hook_name][i] \o T("=") \o pystr(args[i])])
       IN  IF hook_name \in HooksOf(build_backend)
           THEN /\ io' = io \o <<request, send_debug(<<T("parsed hook inputs in <t>ms")>>)>>
                /\ Goto("invoke")
           ELSE /\ io' = Append(io, request)
                /\ Throw(UnsupportedHook(build_backend, hook_name))
    /\ Written
    /\ UNCHANGED <<cache, settings, eof, exitCode, iter, locals, hook_result,
                   earlier, tmpchdir_vars>>

\* `except Exception`: only an Exception is wrapped, and a HookdError of the
\* hook's own is let through
hook_failure_unwrapped(e) ==
    IF IsTerminationSignal(e) \/ IsHookdError(e) THEN e ELSE HookRuntimeError(e)

\* lines 418-423: what run_once raises for an exception of the hook
hook_failure(e) == IF IsTerminationSignal(e) THEN e ELSE HookRuntimeError(e)

\* lines 416-425: the call of the hook
InvokeHook ==
    /\ pc = "invoke"
    /\ \E outcome \in HookOutcomes :
          /\ hook_result' = outcome
          /\ IF outcome.ok
             THEN /\ io' = io \o <<Call(hook_name), send_ok(outcome.val)>>
                  /\ Goto("ran")
                  /\ Written
             ELSE /\ io' = Append(io, Call(hook_name))
                  /\ Throw(hook_failure(outcome.exc))
                  /\ unflushed' = unflushed
    /\ UNCHANGED <<cache, settings, eof, exitCode, iter, locals, earlier,
                   tmpchdir_vars>>

\* the locals of run_once outlive the call
ReturnFromRunOnce_keeping == UNCHANGED locals

\* run_once is left, by return or by an exception: its locals are gone
ReturnFromRunOnce == ClearLocals

\* lines 449-450: run_once returned.  (History: the first cycle of a
\* session that is one of the tracked requests is recorded.)
RanHook ==
    /\ pc = "ran"
    /\ io' = Append(io, send_debug(<<T("ran hook in <t>ms")>>))
    /\ Written
    /\ Goto("iteration_end")
    /\ ReturnFromRunOnce
    /\ earlier' = IF /\ earlier = NoCycle
                      /\ ~eof
                      /\ LinesRead(io) \in tracked
                   THEN Cycle(io', args, hook_result, NoExc)
                   ELSE earlier
    /\ UNCHANGED <<cache, settings, eof, exitCode, iter, hook_result,
                   tmpchdir_vars>>

\* lines 452-454: a HookdError is reported; an exception that send_error
\* itself raises leaves main.  (History: the first cycle of a session in
\* which the backend could not be resolved is recorded.)
HandleHookdError ==
    /\ pc = "except"
    /\ IsHookdError(exc)
    /\ IF str(exc).ok
       THEN /\ io' = Append(io, send_error(exc))
            /\ exc' = NoExc
            /\ pc' = "iteration_end"
            /\ exitCode' = exitCode
            /\ Written
       ELSE /\ io' = io
            /\ exc' = str(exc).exc
            /\ pc' = "done"
            /\ exitCode' = ExitStatus(str(exc).exc)
            /\ Exited
    /\ ReturnFromRunOnce
    /\ earlier' = IF /\ earlier = NoCycle
                      /\ ~eof
                      /\ exc.cls \in BackendErrorClasses
                      /\ LinesRead(io) \in tracked
                   THEN Cycle(io', <<>>, NoCall, exc)
                   ELSE earlier
    /\ UNCHANGED <<cache, settings, eof, iter, raised, hook_result,
                   tmpchdir_vars>>

\* lines 455-458: any other exception is reported and raised again
HandleFatal ==
    /\ pc = "except"
    /\ ~IsHookdError(exc)
    /\ io' = io \o send_fatal(exc)
    /\ pc' = "done"
    /\ exitCode' = ExitStatus(exc)
    /\ Exited
    /\ ReturnFromRunOnce
    /\ UNCHANGED <<cache, settings, eof, exc, iter, raised, hook_result,
                   earlier, tmpchdir_vars>>

\* lines 460-463: one iteration only in debug mode
IterationEnd ==
    /\ pc = "iteration_end"
    /\ IF debug
       THEN pc' = "done" /\ exitCode' = 0 /\ Exited
       ELSE pc' = "top" /\ exitCode' = exitCode /\ unflushed' = unflushed
    /\ UNCHANGED <<io, cache, settings, eof, exc, iter, locals, raised,
                   hook_result, earlier, tmpchdir_vars>>

Next ==
    \/ MainLoop
    \/ ParseAction
    \/ ExpectBuildBackend
    \/ ParseBuildBackend
    \/ ExpectHookName
    \/ ParseHookName
    \/ ExpectArgument
    \/ ParseHookArgument
    \/ LookupHook
    \/ InvokeHook
    \/ RanHook
    \/ HandleHookdError
    \/ HandleFatal
    \/ IterationEnd

Spec == Init /\ [][Next]_vars

\* the session, with the first run of each of TrackedRequests recorded
RepeatInit ==
    Start({FALSE}, TrackedRequests) /\ NotInTmpchdir /\ workdir = <<>> /\ t_path = NoPath
RepeatSpec == RepeatInit /\ [][Next]_vars

\* the session, with sys.stdout a pipe or a terminal
StdoutInit ==
    Start(BOOLEAN, {}) /\ NotInTmpchdir /\ workdir = <<>> /\ t_path = NoPath
StdoutSpec == StdoutInit /\ [][Next]_vars

\* the session of a process that is scheduled as long as it can take a step
LiveSpec == Init /\ [][Next]_vars /\ WF_vars(Next)

-----------------------------------------------------------------------------
(* tmpchdir, the context manager, and a with-block that uses it *)

session_vars ==
    <<pc, io, cache, debug, readable, line_buffering, unflushed, eof, exc,
      exitCode, iter, build_backend, build_backend_name, hook_name, args,
      raised, hook_result, tracked, earlier>>

\* Path.resolve(): the names after the working directory for a relative
\* path, with every '..' taking the name before it away
RECURSIVE normalise(_, _)
normalise(done, parts) ==
    IF parts = <<>> THEN done
    ELSE IF Head(parts) = ".."
         THEN normalise(IF done = <<>> THEN <<>> ELSE SubSeq(done, 1, Len(done) - 1),
                        Tail(parts))
    ELSE normalise(Append(done, Head(parts)), Tail(parts))

resolve(path) ==
    [absolute |-> TRUE,
     parts |-> normalise(IF path.absolute THEN <<>> ELSE workdir, path.parts)]

\* os.chdir(path) raises for a directory that does not exist
chdir(dir) ==
    IF dir \in Dirs THEN Ret(None)
    ELSE Raise(Exc("FileNotFoundError", <<T("No such file or directory")>>))

\* lines 294-295: the path is resolved and the working directory read
tmpchdir_enter ==
    /\ t_pc = "idle"
    /\ t_path' = resolve(t_path)
    /\ t_cwd' = workdir
    /\ t_entry' = workdir
    /\ t_pc' = "try"
    /\ UNCHANGED <<workdir, t_exc, session_vars>>

\* line 298: os.chdir(path), inside the try
tmpchdir_chdir ==
    /\ t_pc = "try"
    /\ IF chdir(t_path.parts).ok
       THEN /\ workdir' = t_path.parts
            /\ t_pc' = "body"
            /\ t_exc' = t_exc
       ELSE /\ workdir' = workdir
            /\ t_pc' = "finally"
            /\ t_exc' = chdir(t_path.parts).exc
    /\ UNCHANGED <<t_path, t_cwd, t_entry, session_vars>>

\* line 299, the with-block at the yield: it may change the directory
body_chdir ==
    /\ t_pc = "body"
    /\ \E dir \in Dirs : workdir' = dir
    /\ UNCHANGED <<t_pc, t_path, t_cwd, t_exc, t_entry, session_vars>>

\* line 299: the with-block ends and the generator is resumed
body_returns ==
    /\ t_pc = "body"
    /\ t_pc' = "finally"
    /\ UNCHANGED <<workdir, t_path, t_cwd, t_exc, t_entry, session_vars>>

\* line 299: the with-block raises and the exception is thrown at the yield
body_raises ==
    /\ t_pc = "body"
    /\ \E e \in BodyExceptions : t_exc' = e
    /\ t_pc' = "finally"
    /\ UNCHANGED <<workdir, t_path, t_cwd, t_entry, session_vars>>

\* the directory is put back only when nothing was raised
tmpchdir_finally_on_success ==
    /\ t_pc = "finally"
    /\ workdir' = IF t_exc = NoExc THEN t_cwd ELSE workdir
    /\ t_pc' = "exited"
    /\ UNCHANGED <<t_path, t_cwd, t_exc, t_entry, session_vars>>

\* lines 300-301: finally, os.chdir(cwd); an exception in flight goes on
tmpchdir_finally ==
    /\ t_pc = "finally"
    /\ workdir' = t_cwd
    /\ t_pc' = "exited"
    /\ UNCHANGED <<t_path, t_cwd, t_exc, t_entry, session_vars>>

\* a process in some directory about to run `with tmpchdir(path): ...`
TmpchdirInit ==
    /\ Start({FALSE}, {})
    /\ ~debug
    /\ readable
    /\ NotInTmpchdir
    /\ workdir \in Dirs
    /\ t_path \in PathArgs

TmpchdirNext ==
    \/ tmpchdir_enter
    \/ tmpchdir_chdir
    \/ body_chdir
    \/ body_returns
    \/ body_raises
    \/ tmpchdir_finally

TmpchdirSpec == TmpchdirInit /\ [][TmpchdirNext]_vars

-----------------------------------------------------------------------------
(* Properties.  What a property expects of the protocol is written out in  *)
(* it (line texts, the schema table, the error kinds), not taken from the   *)
(* definitions above.                                                       *)

IsOut(e) == e.ev = "out"
IsRead(e) == e.ev = "in"
IsCall(e) == e.ev = "call"
IsImport(e) == e.ev = "import"
IsLine(e, tag) == e.ev = "out" /\ e.line[1] = <<tag>>
IsExpect(e) == IsLine(e, "EXPECT")
IsDialogue(e) == IsExpect(e) \/ IsRead(e)

Count(tag) == Cardinality({i \in 1..Len(io) : IsLine(io[i], tag)})
Positions(tag) == {i \in 1..Len(io) : IsLine(io[i], tag)}

\* the EXPECT lines and the reads of the iteration, in order
Dialogue == SelectSeq(io, IsDialogue)
\* the lines read in the iteration
Reads ==
    LET reads == SelectSeq(io, IsRead)
    IN  [i \in 1..Len(reads) |-> reads[i].line[1]]
\* the fields the iteration has asked for
Expects ==
    LET expects == SelectSeq(io, IsExpect)
    IN  [i \in 1..Len(expects) |-> expects[i].line[2]]

\* a line as the parent wrote it, without its newline
Chomp(line) ==
    IF Len(line) > 0 /\ line[Len(line)] = "<LF>"
    THEN SubSeq(line, 1, Len(line) - 1)
    ELSE line

IsPrefix(a, b) == Len(a) <= Len(b) /\ \A i \in 1..Len(a) : a[i] = b[i]

RecoverableKinds ==
    {"InvalidAction", "InvalidHookName", "MalformedBackendName",
     "MissingBackendModule", "MissingBackendAttribute", "UnsupportedHook",
     "MalformedHookArgument", "HookRuntimeError"}

HookKinds ==
    {"build_wheel", "build_sdist", "prepare_metadata_for_build_wheel",
     "get_requires_for_build_wheel", "get_requires_for_build_sdist"}

ReadyLine == [ev |-> "out", line |-> <<<<"READY">>>>]
ExpectLine(field) == [ev |-> "out", line |-> <<<<"EXPECT">>, field>>]
ShutdownLine == [ev |-> "out", line |-> <<<<"SHUTDOWN">>>>]

\* the session goes on after the iteration: the loop is at its end or back at
\* its top
Continues == pc \in {"iteration_end", "top"} /\ exitCode = -1

\* C1, as a state predicate: with the debug flag unset, once a recoverable
\* error raised in the iteration has been handled, exactly one ERROR line of
\* its kind has been written, it is the last line written, and the worker
\* has not terminated.
C1_ErrorLineWritten ==
    (~debug /\ raised.cls \in RecoverableKinds /\ pc # "except") =>
        /\ Continues
        /\ Count("ERROR") = 1
        /\ IsLine(io[Len(io)], "ERROR")
        /\ Len(io[Len(io)].line) = 3
        /\ io[Len(io)].line[2] = <<raised.cls>>

\* C1, as a step: after such an error the next lines written are READY and
\* EXPECT action, and the worker waits for the action line.
C1_BackInAwaitAction ==
    (~debug /\ raised.cls \in RecoverableKinds /\ pc = "top") =>
        /\ io' = <<ReadyLine, ExpectLine(<<"action">>)>>
        /\ pc' = "parse_action"

\* C1: with the debug flag unset, every recoverable error kind raised during
\* an iteration of main is reported by exactly one ERROR <kind> <message>
\* line, the worker does not terminate, and the next lines it emits are
\* READY followed by EXPECT action.
C1_RecoverableErrorsContinue ==
    []C1_ErrorLineWritten /\ [][C1_BackInAwaitAction]_vars

\* C2: every failure of an iteration that is not a HookdError results in
\* exactly one FATAL <kind> <message> line, after which no READY, EXPECT, OK
\* or ERROR line is written, and the process terminates with a non-zero
\* status.
C2_FatalTerminatesWithFailure ==
    (raised # NoExc /\ raised.cls \notin RecoverableKinds /\ pc # "except") =>
        /\ pc = "done"
        /\ exitCode > 0
        /\ Count("FATAL") = 1
        /\ \A f \in Positions("FATAL") :
              /\ Len(io[f].line) = 3
              /\ io[f].line[2] = <<raised.cls>>
              /\ \A j \in (f + 1)..Len(io) :
                    /\ ~IsLine(io[j], "READY")
                    /\ ~IsLine(io[j], "EXPECT")
                    /\ ~IsLine(io[j], "OK")
                    /\ ~IsLine(io[j], "ERROR")

\* C3: the worker and the parent alternate strictly: every EXPECT line is
\* followed by exactly one read before the next EXPECT, no line is read that
\* its own EXPECT did not precede, and when an iteration is over every
\* EXPECT of it has been answered.
C3_StrictAlternation ==
    /\ \A i \in 1..Len(Dialogue) :
          IF i % 2 = 1 THEN IsExpect(Dialogue[i]) ELSE IsRead(Dialogue[i])
    /\ pc \in {"top", "iteration_end", "except", "done"} => Len(Dialogue) % 2 = 0

\* a second iteration has asked for and read all six lines of a build_wheel
\* request
C3_Witness ==
    /\ iter = 2
    /\ pc = "ran"
    /\ hook_name = "build_wheel"
    /\ Len(Dialogue) = 12

\* C4: when the action line read is 'shutdown', the output of the iteration
\* is exactly READY, EXPECT action, SHUTDOWN, the process has ended with
\* status 0, no EXPECT build-backend was written, and nothing is read or
\* written afterwards.
C4_ShutdownEndsSession ==
    (Len(io) >= 3 /\ IsRead(io[3])
        /\ io[3].line[1] \in {<<"shutdown", "<LF>">>, <<"shutdown">>}) =>
        /\ io = <<ReadyLine, ExpectLine(<<"action">>), io[3], ShutdownLine>>
        /\ pc = "done"
        /\ exitCode = 0
        /\ exc = NoExc
        /\ ~ENABLED Next

\* the first line of a session is 'shutdown'
C4_Witness ==
    /\ iter = 1
    /\ Len(io) = 4
    /\ io[3].line[1] = <<"shutdown", "<LF>">>
    /\ io[4] = ShutdownLine
    /\ pc = "done"

\* the description of an exception a hook raised
Description(e) ==
    IF e.cls = "MalformedBackendName"
    THEN <<"Backend ", "'">> \o e.args[1] \o <<"'", " is malformed">>
    ELSE IF Len(e.args) = 0 THEN <<>> ELSE e.args[1]

\* C5: when the hook raises, a termination signal (SystemExit,
\* KeyboardInterrupt) propagates unwrapped and is handled as fatal, never
\* reported as ERROR; any other failure is wrapped as HookRuntimeError and
\* reported as ERROR HookRuntimeError <the failure's description>; no OK
\* line is written in that cycle.
C5_HookFailureWrapped ==
    (~hook_result.ok /\ hook_result.exc # NoExc) =>
        /\ Count("OK") = 0
        /\ IF hook_result.exc.cls \in {"SystemExit", "KeyboardInterrupt"}
           THEN /\ raised = hook_result.exc
                /\ Count("ERROR") = 0
                /\ pc # "except" =>
                      /\ pc = "done"
                      /\ exc = hook_result.exc
                      /\ Count("FATAL") = 1
                      /\ \A f \in Positions("FATAL") :
                            io[f].line[2] = <<hook_result.exc.cls>>
           ELSE /\ raised.cls = "HookRuntimeError"
                /\ Count("FATAL") = 0
                /\ pc # "except" =>
                      /\ Count("ERROR") = 1
                      /\ io[Len(io)] =
                            [ev |-> "out",
                             line |-> <<<<"ERROR">>, <<"HookRuntimeError">>,
                                        Description(hook_result.exc)>>]
                      /\ (Continues \/ (debug /\ pc = "done" /\ exitCode = 0))

\* a hook raised a HookdError of its own, and it was reported wrapped
C5_Witness ==
    /\ ~hook_result.ok
    /\ hook_result.exc.cls = "MalformedBackendName"
    /\ pc = "iteration_end"
    /\ IsLine(io[Len(io)], "ERROR")

\* the hook names a message mentions
Mentioned(message) == {h \in HookKinds : \E i \in 1..Len(message) : message[i] = h}

\* C6: when the backend has no attribute named after the requested hook, an
\* ERROR UnsupportedHook <message> line is written whose message lists
\* exactly the hooks the backend exposes, the hook is not called, and the
\* session continues.
C6_UnsupportedHookReported ==
    (raised.cls = "UnsupportedHook" /\ pc # "except") =>
        /\ Continues \/ (debug /\ pc = "done" /\ exitCode = 0)
        /\ \A i \in 1..Len(io) : ~IsCall(io[i])
        /\ IsLine(io[Len(io)], "ERROR")
        /\ Len(io[Len(io)].line) = 3
        /\ io[Len(io)].line[2] = <<"UnsupportedHook">>
        /\ Mentioned(io[Len(io)].line[3]) \ {raised.args[2][1]}
              = HooksOf(raised.args[1][1])

\* the wire names of the arguments of each hook, in wire order
SchemaTable(h) ==
    CASE h = "build_sdist" ->
             <<<<"sdist", "-", "directory">>, <<"config", "-", "settings">>>>
      [] h = "build_wheel" ->
             <<<<"wheel", "-", "directory">>, <<"config", "-", "settings">>,
               <<"metadata", "-", "directory">>>>
      [] h = "prepare_metadata_for_build_wheel" ->
             <<<<"metadata", "-", "directory">>, <<"config", "-", "settings">>>>
      [] h = "get_requires_for_build_sdist" -> <<<<"config", "-", "settings">>>>
      [] h = "get_requires_for_build_wheel" -> <<<<"config", "-", "settings">>>>

\* every field a cycle asks for, given the hook name the parent sent
ExpectedFields ==
    <<<<"action">>, <<"build", "-", "backend">>, <<"hook", "-", "name">>>>
    \o (IF Len(Reads) >= 3 /\ Len(Chomp(Reads[3])) = 1
           /\ Chomp(Reads[3])[1] \in HookKinds
        THEN SchemaTable(Chomp(Reads[3])[1])
        ELSE <<>>)

\* C7: for every hook kind a cycle writes its EXPECT lines in the order
\* action, build-backend, hook-name, then the arguments of the hook in the
\* order of the schema table, with hyphens for underscores; in a cycle whose
\* decoding succeeds all of them are written before any OK or ERROR line.
C7_ExpectOrder ==
    /\ IsPrefix(Expects, ExpectedFields)
    /\ \A i \in Positions("OK") \cup Positions("ERROR") :
          Count("DEBUG") > 0 =>
              /\ Expects = ExpectedFields
              /\ \A j \in Positions("EXPECT") : j < i

\* a build_wheel cycle has asked for its six fields and written OK
C7_Witness ==
    /\ Count("OK") = 1
    /\ Len(Expects) = 6
    /\ Expects[4] = <<"wheel", "-", "directory">>
    /\ Expects[6] = <<"metadata", "-", "directory">>

\* C8: when the input stream is not readable the worker fails with the fatal
\* kind UnreadableInput: it writes FATAL UnreadableInput <message>, without
\* READY or EXPECT, and terminates.
C8_UnreadableInputFatal ==
    (~readable /\ pc # "top") =>
        /\ raised.cls = "UnreadableInput"
        /\ Count("READY") = 0
        /\ Count("EXPECT") = 0
        /\ pc \in {"except", "done"}
        /\ pc = "done" =>
              /\ exitCode > 0
              /\ Len(io) >= 1
              /\ IsLine(io[1], "FATAL")
              /\ Len(io[1].line) = 3
              /\ io[1].line[2] = <<"UnreadableInput">>

\* a backend line that breaks the rule of a BackendSpec: an empty module
\* part, a colon with an empty attribute part, or more than one colon
ViolatesBackendSpec(text) ==
    /\ Len(text) > 0
    /\ \/ text[1] = ":"
       \/ text[Len(text)] = ":"
       \/ Cardinality({i \in 1..Len(text) : text[i] = ":"}) > 1

\* C9: every non-empty build-backend line that breaks the rule of a
\* BackendSpec is rejected with the recoverable error MalformedBackendName
\* before any import is attempted, and the session continues.
C9_MalformedBackendRejected ==
    (Len(Reads) >= 2 /\ ViolatesBackendSpec(Chomp(Reads[2]))) =>
        /\ raised.cls = "MalformedBackendName"
        /\ build_backend = NoObj
        /\ \A i \in 1..Len(io) : ~IsImport(io[i])
        /\ pc # "except" =>
              /\ Continues \/ (debug /\ pc = "done" /\ exitCode = 0)
              /\ IsLine(io[Len(io)], "ERROR")
              /\ io[Len(io)].line[2] = <<"MalformedBackendName">>

\* a nested mapping from strings to strings or nested mappings
RECURSIVE IsStringDict(_)
IsStringDict(v) ==
    /\ v.t = "dict"
    /\ \A i \in 1..Len(v.items) :
          v.items[i].v.t = "str" \/ IsStringDict(v.items[i].v)

\* the text is a document that is such a nested mapping
IsMappingText(text) == json_loads(text).ok /\ IsStringDict(json_loads(text).val)

\* the worker has just read the line it asked for with EXPECT config-settings
ConfigSettingsRead ==
    /\ Len(io) >= 2
    /\ IsRead(io[Len(io)])
    /\ io[Len(io) - 1] = ExpectLine(<<"config", "-", "settings">>)

\* C10: an empty config_settings line decodes to absent, '{}' to a present,
\* empty mapping, and every non-empty line that is not a nested mapping of
\* strings raises MalformedHookArgument with exactly the raw line and the
\* argument name config_settings; the hook is never called with a
\* config_settings value that is not a mapping.
C10_ConfigSettingsDecoding ==
    /\ ConfigSettingsRead =>
          LET data == Chomp(io[Len(io)].line[1])
          IN  /\ data = <<>> => (pc = "arguments" /\ args[Len(args)] = None)
              /\ data = <<"{", "}">> =>
                    (pc = "arguments" /\ args[Len(args)] = DictV(<<>>))
              /\ (data # <<>> /\ ~IsMappingText(data)) =>
                    /\ pc = "except"
                    /\ raised =
                          [cls |-> "MalformedHookArgument",
                           args |-> <<data, <<"config", "_", "settings">>>>,
                           inner |-> <<>>]
    /\ pc = "invoke" =>
          \A i \in 1..Len(args) :
              HookArguments[hook_name][i] = <<"config", "_", "settings">> =>
                  (args[i] = None \/ IsStringDict(args[i]))

\* the index in Reads and Expects of the first field asked for under a name
FieldIndex(field) ==
    CHOOSE k \in 1..Len(Expects) :
        Expects[k] = field /\ \A j \in 1..(k - 1) : Expects[j] # field

\* the line sent for a field was empty
SentEmpty(field) ==
    /\ \E k \in 1..Len(Reads) : Expects[k] = field
    /\ Chomp(Reads[FieldIndex(field)]) = <<>>

\* C11: a hook is never called in a cycle whose wheel_directory or
\* sdist_directory line was empty (an empty line is not decoded into a path
\* that is passed to the hook), whereas an empty metadata_directory line
\* decodes to absent.
C11_RequiredPathNonEmpty ==
    /\ (\E i \in 1..Len(io) : IsCall(io[i])) =>
          /\ ~SentEmpty(<<"wheel", "-", "directory">>)
          /\ ~SentEmpty(<<"sdist", "-", "directory">>)
    /\ (SentEmpty(<<"metadata", "-", "directory">>)
          /\ Len(args) >= FieldIndex(<<"metadata", "-", "directory">>) - 3) =>
          args[FieldIndex(<<"metadata", "-", "directory">>) - 3] = None

\* the key a build-backend line is resolved under: the line as sent, or the
\* legacy default for an empty line
BackendKey(line) ==
    IF Chomp(line) = <<>>
    THEN <<"setuptools", ".", "build_meta", ":", "__legacy__">>
    ELSE Chomp(line)

\* the handles stored under a key
StoredUnder(key) == {c.handle : c \in {d \in cache : d.key = key}}

\* C12, as a step: no entry of the cache is ever removed or changed; a
\* build-backend line that resolves leaves its handle stored under its exact
\* string; and a line whose string was resolved before gets the stored
\* handle, with no import attempted and the cache as it was.
C12_Step ==
    /\ cache \subseteq cache'
    /\ \A c \in cache' : \A d \in cache' : (c.key = d.key => c = d)
    /\ (pc = "parse_build_backend" /\ pc' = "expect_hook_name") =>
          LET key == BackendKey(io'[Len(io) + 1].line[1])
          IN  /\ IsRead(io'[Len(io) + 1])
              /\ [key |-> key, handle |-> build_backend'] \in cache'
              /\ StoredUnder(key) # {} =>
                    /\ build_backend' \in StoredUnder(key)
                    /\ cache' = cache
                    /\ \A i \in 1..Len(io') : ~IsImport(io'[i])
    /\ (pc = "parse_build_backend" /\ pc' # "expect_hook_name") =>
          StoredUnder(BackendKey(io'[Len(io) + 1].line[1])) = {}

\* C12: across the run cycles of one process, once a backend string has been
\* resolved, every later cycle that sends the same string (or an empty line,
\* for the default) gets the same handle from the cache without the module
\* import or the attribute lookup being performed again, and entries are
\* never evicted.
C12_ResolvedOnce == [][C12_Step]_vars

\* a second cycle sent an empty line again and got the default backend with
\* no import
C12_Witness ==
    /\ iter = 2
    /\ pc = "expect_hook_name"
    /\ Chomp(Reads[2]) = <<>>
    /\ build_backend = "__legacy__"
    /\ \A i \in 1..Len(io) : ~IsImport(io[i])

\* C13, as stated: the same string always gets the handle cached for it, and
\* two different strings never get equal handles.
C13_DistinctStringsDistinctHandles ==
    /\ \A c \in cache : \A d \in cache :
          /\ c.key = d.key => c.handle = d.handle
          /\ c.key # d.key => c.handle # d.handle
    /\ pc = "expect_hook_name" =>
          [key |-> build_backend_name, handle |-> build_backend] \in cache

\* the object a backend string names: the module, its attribute after the
\* last dot when the whole is no module, or its attribute after the colon
NamedObject(key) ==
    CASE key = <<"setuptools", ".", "build_meta", ":", "__legacy__">> -> "__legacy__"
      [] key = <<"a">> -> "a"
      [] key = <<"a", ".", "b">> -> "a.b"
      [] key = <<"a", ":", "b">> -> "a.b"
      [] OTHER -> "none"

\* C13, amended: the same string always gets the one handle cached for it,
\* every string resolved has an entry of its own under its exact text, and
\* the handle of an entry is the object its string names, so that two
\* strings naming the same object ('a.b' and 'a:b') hold equal handles.
C13_HandlePerString ==
    /\ \A c \in cache : \A d \in cache : (c.key = d.key => c = d)
    /\ \A c \in cache : c.handle = NamedObject(c.key)
    /\ pc = "expect_hook_name" =>
          /\ [key |-> build_backend_name, handle |-> build_backend] \in cache
          /\ build_backend_name = BackendKey(Reads[2])

\* 'a.b' and 'a:b' were both resolved: two entries, one object
C13_Witness ==
    /\ [key |-> <<"a", ".", "b">>, handle |-> "a.b"] \in cache
    /\ [key |-> <<"a", ":", "b">>, handle |-> "a.b"] \in cache
    /\ pc = "expect_hook_name"
    /\ build_backend_name = <<"a", ":", "b">>

\* the iteration is over: the loop is between two iterations, or has been left
IterationOver == iter >= 1 /\ pc \in {"iteration_end", "top", "done"}

\* the reads that answer an EXPECT action line
ActionReads ==
    {i \in 2..Len(io) : IsRead(io[i]) /\ io[i - 1] = ExpectLine(<<"action">>)}

\* C14: with the debug flag set main performs exactly one iteration whatever
\* its outcome: the loop is never entered a second time, and READY is
\* written exactly once and the action line read exactly once; with the flag
\* unset an iteration that ended neither in SHUTDOWN nor in a fatal failure
\* is followed by another iteration.
C14_DebugSingleIteration ==
    /\ debug =>
          /\ iter <= 1
          /\ iter = 1 => pc # "top"
          /\ pc = "done" =>
                /\ Count("READY") = 1
                /\ Cardinality(ActionReads) = 1
    /\ (~debug /\ IterationOver /\ Count("SHUTDOWN") = 0
           /\ (raised = NoExc \/ raised.cls \in RecoverableKinds)) =>
          Continues

CallPositions == {i \in 1..Len(io) : IsCall(io[i])}

\* the line sent for a config-settings field could not be decoded
MalformedSent(field, line) ==
    /\ field = <<"config", "-", "settings">>
    /\ Chomp(line) # <<>>
    /\ ~json_loads(Chomp(line)).ok

\* the number of fields a cycle has asked for when a failure of this kind
\* is raised, in a cycle that asks for n fields when it is complete
FieldsAtFailure(kind, n) ==
    CASE kind = "InvalidAction" -> {1}
      [] kind \in {"MalformedBackendName", "MissingBackendModule",
                   "MissingBackendAttribute"} -> {2}
      [] kind = "InvalidHookName" -> {3}
      [] kind = "MalformedHookArgument" -> 4..n
      [] OTHER -> {n}

\* C19: within one run cycle the steps are strictly ordered and the first
\* failing step aborts the rest.  Over the events of the cycle: EXPECT
\* hook-name comes after the backend line was read and resolved, with every
\* import before it; an argument is asked for only after a valid hook name
\* was read; UnsupportedHook is raised only after every argument of the
\* schema was read and decoded, so a malformed argument is reported as
\* MalformedHookArgument whether the backend has the hook or not; the hook
\* is called at most once, after all this and with nothing raised before;
\* and from a failing step on the cycle has asked for and read exactly the
\* fields up to that step, has no OK line, and has called no hook unless it
\* is the hook that failed.
C19_OrderedCycle ==
    LET E == Expects
        R == Reads
        F == ExpectedFields
        failed == ~hook_result.ok /\ hook_result.exc # NoExc
    IN  /\ \A i \in 1..Len(io) :
              io[i] = ExpectLine(<<"hook", "-", "name">>) =>
                  /\ Len(SelectSeq(SubSeq(io, 1, i), IsRead)) = 2
                  /\ StoredUnder(BackendKey(R[2])) # {}
                  /\ \A j \in (i + 1)..Len(io) : ~IsImport(io[j])
        /\ Len(E) >= 4 =>
              /\ Len(Chomp(R[3])) = 1
              /\ Chomp(R[3])[1] \in HookKinds
        /\ raised.cls = "UnsupportedHook" =>
              /\ E = F
              /\ Len(R) = Len(E)
              /\ Count("DEBUG") = 1
              /\ \A k \in 1..Len(R) : ~MalformedSent(E[k], R[k])
        /\ \A k \in 1..Len(R) :
              MalformedSent(E[k], R[k]) =>
                  /\ raised.cls = "MalformedHookArgument"
                  /\ k = Len(R)
        /\ Cardinality(CallPositions) <= 1
        /\ \A i \in CallPositions :
              /\ E = F
              /\ Len(R) = Len(E)
              /\ \A j \in 1..Len(io) : IsDialogue(io[j]) => j < i
              /\ Chomp(R[3])[1] \in HooksOf(NamedObject(BackendKey(R[2])))
              /\ raised # NoExc => failed
        /\ (raised # NoExc /\ readable) =>
              /\ Count("OK") = 0
              /\ Len(R) = Len(E)
              /\ raised.cls \in RecoverableKinds =>
                    Len(E) \in FieldsAtFailure(raised.cls, Len(F))
              /\ CallPositions # {} => failed
              /\ failed => E = F

\* a cycle sent a malformed config_settings line for a hook its backend does
\* not have, and MalformedHookArgument was reported
C19_Witness ==
    /\ pc = "iteration_end"
    /\ raised.cls = "MalformedHookArgument"
    /\ Chomp(Reads[2]) = <<"a", ".", "b">>
    /\ Chomp(Reads[3]) = <<"build_sdist">>
    /\ io[Len(io)].line[2] = <<"MalformedHookArgument">>

\* the lines a cycle read, as the parent wrote them, and the fields it asked
\* for
SentIn(log) ==
    LET reads == SelectSeq(log, IsRead)
    IN  [i \in 1..Len(reads) |-> Chomp(reads[i].line[1])]
AskedIn(log) ==
    LET expects == SelectSeq(log, IsExpect)
    IN  [i \in 1..Len(expects) |-> expects[i].line[2]]
IsOK(e) == IsLine(e, "OK")

C16_WorkdirRestored ==
    t_pc = "exited" =>
        /\ workdir = t_entry
        /\ (t_path.parts \notin {<<>>, <<"src">>, <<"src", "pkg">>, <<"tmp">>}) =>
              t_exc.cls = "FileNotFoundError"

\* the with-block ran in another directory and raised, and tmpchdir was left
C16_Witness ==
    /\ t_pc = "exited"
    /\ t_exc.cls = "ValueError"
    /\ t_path.parts = <<"tmp">>
    /\ t_entry = <<"src", "pkg">>
    /\ workdir = <<"src", "pkg">>

\* the worker is blocked in readline()
BlockedInRead ==
    pc \in {"parse_action", "parse_build_backend", "parse_hook_name",
            "parse_hook_argument"}

\* C17: whenever the worker is blocked in a read, every line it has written
\* has been flushed to the parent: the state in which the worker waits for a
\* line while the EXPECT that asks for it is still in the output buffer is
\* unreachable.
C17_FlushedBeforeRead ==
    BlockedInRead =>
        /\ ~unflushed
        /\ IsExpect(io[Len(io)])

\* C18: with the debug flag unset, once the input stream has reached its end
\* the worker eventually terminates.
C18_TerminatesAtEndOfStream == (~debug /\ eof) ~> (pc = "done")

BackendFailures ==
    {"MalformedBackendName", "MissingBackendModule", "MissingBackendAttribute"}

\* the error a backend string that cannot be resolved fails with
FailureOf(key) ==
    CASE key \in {<<"a", ":">>, <<"a", ":", "b", ":", "b">>} -> "MalformedBackendName"
      [] key \in {<<"z">>, <<"z", ".", "b">>} -> "MissingBackendModule"
      [] key \in {<<"a", ".", "z">>, <<"a", ":", "z">>} -> "MissingBackendAttribute"
      [] OTHER -> "none"

\* the names whose import a cycle attempted
ImportsIn(log) ==
    LET imports == SelectSeq(log, IsImport)
    IN  [i \in 1..Len(imports) |-> imports[i].line[1]]

\* C20, as a step: a resolution that fails with one of the recoverable
\* backend errors leaves the cache exactly as it was, with no entry under
\* the failing string; the error is the one that string fails with whatever
\* went before, raised after the module was tried again (unless the string
\* is malformed); and when the failing cycle recorded earlier in the session
\* sent the same string, the error kind and the imports attempted are the
\* same as then.
C20_Step ==
    (pc = "parse_build_backend" /\ pc' = "except"
        /\ raised'.cls \in BackendFailures) =>
        LET key == BackendKey(io'[Len(io) + 1].line[1])
        IN  /\ cache' = cache
            /\ \A c \in cache' : c.key # key
            /\ raised'.cls = FailureOf(key)
            /\ (raised'.cls # "MalformedBackendName") => ImportsIn(io') # <<>>
            /\ (earlier.raised # NoExc /\ iter > earlier.iter
                   /\ SentIn(earlier.io)[2] = key) =>
                  /\ raised'.cls = earlier.raised.cls
                  /\ ImportsIn(io') = ImportsIn(earlier.io)

\* C20: a backend resolution that fails with a recoverable error
\* (MalformedBackendName, MissingBackendModule, MissingBackendAttribute)
\* leaves the resolver cache unchanged: nothing is stored for the failing
\* string, the entries of the strings resolved before are untouched, and a
\* later cycle that sends the same failing string resolves it again and
\* reports the same kind of error.
C20_FailedResolutionNotCached == [][C20_Step]_vars

\* after 'a:z' failed in the first cycle, the second cycle sent it again and
\* was reported the same error, after another import of a
C20_Witness ==
    /\ iter = 2
    /\ pc = "iteration_end"
    /\ earlier.raised.cls = "MissingBackendAttribute"
    /\ raised.cls = "MissingBackendAttribute"
    /\ SentIn(io) = SentIn(earlier.io)
    /\ ImportsIn(io) = <<<<"a">>>>
    /\ io[Len(io)].line[2] = <<"MissingBackendAttribute">>
    /\ cache = {}

====
